---- MODULE Spec2Model ----
(***************************************************************************)
(* A model of src/index.ts: a Worker that serves random words from an      *)
(* in-memory word store, loads the store lazily from a remote source and   *)
(* rate-limits /all and /word per client.                                  *)
(*                                                                         *)
(* The Worker is single threaded: a handler runs without interruption      *)
(* until it awaits.  The only awaits are those of loadWordData (fetch and  *)
(* json); every other part of a handler is one atomic step.                *)
(***************************************************************************)
EXTENDS Integers, Sequences, FiniteSets, TLC

(***************************************************************************)
(* Bounds of the model.                                                    *)
(***************************************************************************)
\* how many requests arrive in a run
MaxRequests == 3
\* how many of the secondary language codes of the loader's list are modelled
NumLanguages == 2
\* the clock value at start-up (Date.now() is positive)
StartTime == 1

(***************************************************************************)
(* Program constants.                                                      *)
(***************************************************************************)
RATE_LIMIT_WINDOW == 5000

\* the number parameter is clamped to [MinNumber, MaxNumber]
MinNumber == 1
MaxNumber == 100
\* the difficulty branch: diff in [MinDiff, MaxDiff], number <= DiffMaxNumber,
\* the first number * DiffFactor words are reshuffled
MinDiff == 1
MaxDiff == 5
DiffMaxNumber == 5
DiffFactor == 10

(***************************************************************************)
(* JavaScript values.  A value of the word store, or a parsed JSON body,   *)
(* is an array of strings, some other truthy JSON value (an object), null, *)
(* a function (what a plain object inherits under "constructor") or        *)
(* undefined.                                                              *)
(***************************************************************************)
ArrayOf(ws) == [kind |-> "array", words |-> ws]
ObjectValue == [kind |-> "object", words |-> <<>>]
NullValue == [kind |-> "null", words |-> <<>>]
FunctionValue == [kind |-> "function", words |-> <<>>]
Undefined == [kind |-> "undefined", words |-> <<>>]

\* !v is false exactly for these
Truthy(v) == v.kind \in {"array", "object", "function"}

\* property names every object literal inherits from Object.prototype
ObjectPrototypeKeys == {"constructor"}

\* obj[key] on an object literal: an own property, else an inherited one,
\* else undefined
Get(obj, key) ==
  IF key \in DOMAIN obj THEN obj[key]
  ELSE IF key \in ObjectPrototypeKeys THEN FunctionValue
  ELSE Undefined

\* a number or NaN
Num(n) == [nan |-> FALSE, val |-> n]
NaN == [nan |-> TRUE, val |-> 0]

(***************************************************************************)
(* Query parameters.  searchParams.get gives null for a missing parameter; *)
(* a number-like parameter is a string of characters handed to parseInt.   *)
(***************************************************************************)
Missing == [present |-> FALSE, text |-> <<>>]
Text(cs) == [present |-> TRUE, text |-> cs]

\* get(name) || dflt : null and the empty string both give the default
OrDefault(p, dflt) == IF p.present /\ p.text # <<>> THEN p.text ELSE dflt

Digits == <<"0", "1", "2", "3", "4", "5", "6", "7", "8", "9">>
IsDigit(c) == \E i \in 1..Len(Digits) : Digits[i] = c
DigitValue(c) == (CHOOSE i \in 1..Len(Digits) : Digits[i] = c) - 1

RECURSIVE SkipSpaces(_)
SkipSpaces(cs) ==
  IF cs # <<>> /\ Head(cs) = " " THEN SkipSpaces(Tail(cs)) ELSE cs

\* the value of the longest prefix of digits of cs, continuing from acc
RECURSIVE DigitsValue(_, _)
DigitsValue(cs, acc) ==
  IF cs # <<>> /\ IsDigit(Head(cs))
  THEN DigitsValue(Tail(cs), 10 * acc + DigitValue(Head(cs)))
  ELSE acc

\* parseInt(string): leading blanks, an optional sign, then the longest run
\* of decimal digits; NaN when there is no digit
ParseInt(cs) ==
  LET t == SkipSpaces(cs)
      signed == t # <<>> /\ Head(t) \in {"-", "+"}
      body == IF signed THEN Tail(t) ELSE t
      sign == IF signed /\ Head(t) = "-" THEN -1 ELSE 1
  IN IF body # <<>> /\ IsDigit(Head(body))
     THEN Num(sign * DigitsValue(body, 0))
     ELSE NaN

\* Math.min and Math.max: NaN when an argument is NaN
MathMin(a, b) == IF a.nan \/ b.nan THEN NaN ELSE Num(IF a.val < b.val THEN a.val ELSE b.val)
MathMax(a, b) == IF a.nan \/ b.nan THEN NaN ELSE Num(IF a.val > b.val THEN a.val ELSE b.val)

\* a > b, a >= b, a <= b on numbers: false when an operand is NaN
Gt(a, b) == ~a.nan /\ ~b.nan /\ a.val > b.val
Ge(a, b) == ~a.nan /\ ~b.nan /\ a.val >= b.val
Le(a, b) == ~a.nan /\ ~b.nan /\ a.val <= b.val

\* a variant of ParseNumber without the lower end of the range
ParseNumberNoFloor(p) ==
  MathMin(Num(MaxNumber), ParseInt(OrDefault(p, <<"1">>)))

\* Math.max(1, Math.min(100, parseInt(get('number') || '1')))
ParseNumber(p) ==
  MathMax(Num(MinNumber), MathMin(Num(MaxNumber), ParseInt(OrDefault(p, <<"1">>))))
\* parseInt(get('length') || '-1'), parseInt(get('diff') || '-1')
ParseLength(p) == ParseInt(OrDefault(p, <<"-", "1">>))
ParseDiff(p) == ParseInt(OrDefault(p, <<"-", "1">>))

\* get('lang') || 'en' ; the text of a lang parameter is the code itself
ParseLang(p) == IF p.present /\ p.text # "" THEN p.text ELSE "en"
\* headers.get('CF-Connecting-IP') || 'unknown'
ClientOf(h) == IF h.present /\ h.text # "" THEN h.text ELSE "unknown"

(***************************************************************************)
(* Words.                                                                  *)
(***************************************************************************)
\* word.length
WordLen(w) ==
  CASE w = "hello" -> 5
    [] w = "world" -> 5
    [] w = "test" -> 4
    [] w = "example" -> 7
    [] w = "demo" -> 4
    [] w = "kiwi" -> 4
    [] w = "apple" -> 5
    [] w = "haus" -> 4
    [] w = "hund" -> 4
    [] w = "casa" -> 4
    [] OTHER -> 3

\* a variant of FallbackWords with one word of five letters
FallbackWordsOneOfFive == <<"hello", "test", "example", "demo">>

\* the built-in list of 'en'
FallbackWords == <<"hello", "world", "test", "example", "demo">>

\* the loader's list of secondary codes, cut to the modelled ones
AllLanguages == <<"de", "es", "fr", "it", "pt-br", "ro", "zh">>
languages == SubSeq(AllLanguages, 1, NumLanguages)
\* the codes of a load in the order it fetches them: index 0 is 'en'
CodeAt(i) == IF i = 0 THEN "en" ELSE languages[i]

\* what the remote source holds for a code when it serves a well-formed list
RemoteWords(lang) ==
  CASE lang = "en" -> <<"kiwi", "apple", "kiwi">>
    [] lang = "de" -> <<"haus", "hund">>
    [] lang = "es" -> <<"casa">>
    [] OTHER -> <<"mot">>

\* a variant of FilterLen that keeps the words of up to n characters
RECURSIVE FilterLenUpTo(_, _)
FilterLenUpTo(ws, n) ==
  IF ws = <<>> THEN <<>>
  ELSE IF WordLen(Head(ws)) <= n THEN <<Head(ws)>> \o FilterLenUpTo(Tail(ws), n)
  ELSE FilterLenUpTo(Tail(ws), n)

\* words.filter(word => word.length === length)
RECURSIVE FilterLen(_, _)
FilterLen(ws, n) ==
  IF ws = <<>> THEN <<>>
  ELSE IF WordLen(Head(ws)) = n THEN <<Head(ws)>> \o FilterLen(Tail(ws), n)
  ELSE FilterLen(Tail(ws), n)

\* a variant of Slice that takes one element more
SliceOneMore(ws, n) ==
  LET k == IF n.nan \/ n.val < 0 THEN 0 ELSE IF n.val + 1 > Len(ws) THEN Len(ws) ELSE n.val + 1
  IN SubSeq(ws, 1, k)

\* words.slice(0, n): n = NaN counts as 0
Slice(ws, n) ==
  LET k == IF n.nan \/ n.val < 0 THEN 0 ELSE IF n.val > Len(ws) THEN Len(ws) ELSE n.val
  IN SubSeq(ws, 1, k)

\* words.sort(() => Math.random() - 0.5): the comparator is inconsistent, so
\* the order is implementation-defined: any arrangement of the same elements
RECURSIVE Shuffles(_)
Shuffles(ws) ==
  IF ws = <<>> THEN {<<>>}
  ELSE UNION {{<<ws[i]>> \o rest :
                 rest \in Shuffles(SubSeq(ws, 1, i - 1) \o SubSeq(ws, i + 1, Len(ws)))} :
              i \in 1..Len(ws)}

(***************************************************************************)
(* The rate limiter: checkRateLimit(ip) at clock value t on table rl.      *)
(***************************************************************************)
\* a variant of RateAdmits that admits a check exactly one window later
RateAdmitsInclusive(rl, ip, t) ==
  \/ ip \notin DOMAIN rl
  \/ rl[ip] = 0
  \/ t - rl[ip] >= RATE_LIMIT_WINDOW

\* !lastRequest || now - lastRequest > RATE_LIMIT_WINDOW
RateAdmits(rl, ip, t) ==
  \/ ip \notin DOMAIN rl
  \/ rl[ip] = 0
  \/ t - rl[ip] > RATE_LIMIT_WINDOW

\* a variant of Expired that purges after half a window
ExpiredHalfWindow(ts, t) == 2 * (t - ts) > RATE_LIMIT_WINDOW

\* a key is deleted by the cleanup pass
Expired(ts, t) == t - ts > RATE_LIMIT_WINDOW

\* a variant of Cleanup that deletes nothing
CleanupNothing(rl, t) == rl

\* Object.keys(rateLimits).forEach(key => ... delete rateLimits[key])
Cleanup(rl, t) ==
  LET keep == {k \in DOMAIN rl : ~Expired(rl[k], t)}
  IN [k \in keep |-> rl[k]]

\* rateLimits[ip] = now
Record(rl, ip, t) ==
  [k \in DOMAIN rl \cup {ip} |-> IF k = ip THEN t ELSE rl[k]]

\* a variant of RateAfter that runs the cleanup pass on a rejected check too
RateAfterAlwaysCleans(rl, ip, t) ==
  Cleanup(IF RateAdmits(rl, ip, t) THEN Record(rl, ip, t) ELSE rl, t)

\* the table after checkRateLimit(ip)
RateAfter(rl, ip, t) ==
  IF RateAdmits(rl, ip, t) THEN Cleanup(Record(rl, ip, t), t) ELSE rl

(***************************************************************************)
(* What the environment sends.  A request's headers and query string are   *)
(* fixed when it arrives, but a handler reads them only after the load, so *)
(* the model draws them where the handler reads them.                      *)
(***************************************************************************)
NoString == [present |-> FALSE, text |-> ""]
String(s) == [present |-> TRUE, text |-> s]

\* the routes that load the data first
DataRoutes == {"/languages", "/all", "/word"}

\* An environment E names what the clients and the remote source may send:
\*   routes    the data routes requested
\*   loads     how many requests arrive before the first load has returned
\*   ips       the CF-Connecting-IP header
\*   delays    how far the clock has moved on when a handler reads Date.now()
\*   langs, numbers, lengths, diffs   the query parameters
\*   outcomes  how the awaits on one code of a load end: fetch() rejects,
\*             json() rejects, or json() delivers an array of strings, another
\*             truthy JSON value, or null
WindowDelays == {0, RATE_LIMIT_WINDOW - 1, RATE_LIMIT_WINDOW, RATE_LIMIT_WINDOW + 1}

\* the loader: concurrent first requests, every way a fetch can end
LoadEnv ==
  [routes |-> {"/all"}, loads |-> 2,
   ips |-> {NoString}, delays |-> {0}, langs |-> {NoString},
   numbers |-> {Missing}, lengths |-> {Missing}, diffs |-> {Missing},
   outcomes |-> {"network_error", "syntax_error", "array", "object"}]
\* the rate limiter: two clients, requests around the window's end, a lang
\* that names an inherited property
RateEnv ==
  [routes |-> DataRoutes, loads |-> 1,
   ips |-> {NoString, String("10.0.0.1")}, delays |-> WindowDelays,
   langs |-> {NoString, String("constructor")},
   numbers |-> {Missing}, lengths |-> {Text(<<"5">>)}, diffs |-> {Missing},
   outcomes |-> {"array"}]
\* languages: known and unknown codes on /all and /word, in and out of the
\* window
LangEnv ==
  [routes |-> {"/all", "/word"}, loads |-> 1,
   ips |-> {NoString}, delays |-> {0, RATE_LIMIT_WINDOW + 1},
   langs |-> {NoString, String("de"), String("xx")},
   numbers |-> {Missing}, lengths |-> {Missing, Text(<<"4">>)}, diffs |-> {Missing},
   outcomes |-> {"array", "object"}]
\* the word selector: every request admitted, counts below, inside and above
\* the range, lengths with and without words, with and without a difficulty
WordEnv ==
  [routes |-> {"/word"}, loads |-> 1,
   ips |-> {NoString}, delays |-> {RATE_LIMIT_WINDOW + 1},
   langs |-> {NoString},
   numbers |-> {Missing, Text(<<"0">>), Text(<<"-", "2">>), Text(<<"2">>),
                Text(<<"1", "0", "1">>)},
   lengths |-> {Missing, Text(<<"0">>), Text(<<"-", "3">>), Text(<<"4">>),
                Text(<<"5">>), Text(<<"9">>)},
   diffs |-> {Missing, Text(<<"3">>)},
   outcomes |-> {"array"}]
\* the built-in data: the fetch of 'en' fails or not, then
\* /word?number=3&length=5 with and without lang=en and diff, from two
\* clients, in and out of the window
FallbackEnv ==
  [routes |-> {"/word"}, loads |-> 1,
   ips |-> {NoString, String("10.0.0.1")}, delays |-> {0, RATE_LIMIT_WINDOW + 1},
   langs |-> {NoString, String("en")},
   numbers |-> {Text(<<"3">>)}, lengths |-> {Text(<<"5">>)},
   diffs |-> {Missing, Text(<<"3">>)},
   outcomes |-> {"network_error", "syntax_error", "array"}]
\* the available languages: concurrent first requests to /languages, fetches
\* that fail, deliver a list or deliver the JSON value null
AvailEnv ==
  [routes |-> {"/languages"}, loads |-> 2,
   ips |-> {NoString}, delays |-> {0}, langs |-> {NoString},
   numbers |-> {Missing}, lengths |-> {Missing}, diffs |-> {Missing},
   outcomes |-> {"network_error", "array", "null"}]
\* the first requests: concurrent requests to the data routes before the flag
\* is set, fetches that fail or deliver a list
FirstEnv ==
  [routes |-> DataRoutes, loads |-> 2,
   ips |-> {NoString}, delays |-> {0}, langs |-> {NoString},
   numbers |-> {Missing}, lengths |-> {Text(<<"5">>)}, diffs |-> {Missing},
   outcomes |-> {"network_error", "array"}]
\* the rate-limit slot: one client, requests in and out of its window, a
\* language the store lacks and a length no word has
SlotEnv ==
  [routes |-> DataRoutes, loads |-> 1,
   ips |-> {NoString}, delays |-> {0, RATE_LIMIT_WINDOW - 1, RATE_LIMIT_WINDOW + 1},
   langs |-> {NoString, String("xx")},
   numbers |-> {Missing}, lengths |-> {Text(<<"9">>)}, diffs |-> {Missing},
   outcomes |-> {"array"}]

Throws(o) == o \in {"network_error", "syntax_error"}
\* the value json() resolves to
Parsed(lang, o) ==
  CASE o = "array" -> ArrayOf(RemoteWords(lang))
    [] o = "object" -> ObjectValue
    [] o = "null" -> NullValue

(***************************************************************************)
(* State.                                                                  *)
(***************************************************************************)
VARIABLES
  languageData,        \* the word store: own key -> value
  languageOrder,       \* the own keys of languageData in insertion order
  availableLanguages,  \* the list /languages answers with
  dataLoaded,          \* the loaded flag
  rateLimits,          \* client -> time of its last admitted check
  now,                 \* the clock
  loads,               \* the requests suspended inside loadWordData
  last,                \* the latest response and what its handler read
  served,              \* how many responses were produced
  loadsStarted,        \* how many times loadWordData was called
  lastAdmit,           \* client -> time of its last admitted check, never purged
  watched              \* one call of loadWordData, followed from start to return

vars == <<languageData, languageOrder, availableLanguages, dataLoaded, rateLimits,
          now, loads, last, served, loadsStarted, lastAdmit, watched>>

Clients == {ClientOf(h) : h \in LoadEnv.ips \cup RateEnv.ips \cup LangEnv.ips
                                  \cup WordEnv.ips \cup FallbackEnv.ips
                                  \cup SlotEnv.ips}
\* a request suspended inside loadWordData holds one of these
Slots == 1..MaxRequests

NoLang == ""
EmptyStore == [k \in {} |-> Undefined]
IdleLoad == [pc |-> "idle", route |-> "", idx |-> 0]
\* state: none, running or returned; slot: the request that called; pre and
\* preAvail: the store and the available languages at the call; outcomes: how
\* the awaits on the codes ended, in order; count: how many calls had been made
\* when it returned
NotWatched ==
  [state |-> "none", slot |-> 0, pre |-> EmptyStore, preAvail |-> <<>>,
   outcomes |-> <<>>, count |-> 0]
NoResponse ==
  [route |-> "", status |-> 0, error |-> "", kind |-> "none", body |-> <<>>,
   checked |-> FALSE, admitted |-> FALSE, client |-> "", at |-> 0, prev |-> 0,
   lang |-> NoLang, own |-> FALSE, seen |-> Undefined,
   number |-> NaN, length |-> NaN, diff |-> NaN, loaded |-> FALSE,
   asked |-> [number |-> Missing, length |-> Missing, diff |-> Missing]]

Init ==
  /\ languageData = [k \in {"en"} |-> ArrayOf(FallbackWords)]
  /\ languageOrder = <<"en">>
  /\ availableLanguages = <<"en">>
  /\ dataLoaded = FALSE
  /\ rateLimits = [k \in {} |-> 0]
  /\ now = StartTime
  /\ loads = [s \in Slots |-> IdleLoad]
  /\ last = NoResponse
  /\ served = 0
  /\ loadsStarted = 0
  /\ lastAdmit = [c \in Clients |-> 0]
  /\ watched = NotWatched

InFlight == {s \in Slots : loads[s].pc # "idle"}
\* another request may arrive
MayArrive == served + Cardinality(InFlight) < MaxRequests

(***************************************************************************)
(* The word selector of /word on an array ws: every outcome the two random *)
(* sorts can produce.  stored is the array of the store afterwards: filter *)
(* and slice copy, sort works in place, so without a length filter the     *)
(* first sort reorders the stored array itself.                            *)
(***************************************************************************)
DiffApplies(number, diff) ==
  Ge(diff, Num(MinDiff)) /\ Le(diff, Num(MaxDiff)) /\ Le(number, Num(DiffMaxNumber))

WordOutcomes(ws, number, length, diff) ==
  LET filtering == Gt(length, Num(0))
      cand == IF filtering THEN FilterLen(ws, length.val) ELSE ws
  IN IF filtering /\ cand = <<>>
     THEN {[ok |-> FALSE, stored |-> ws, result |-> <<>>]}
     ELSE UNION {
            LET again == IF DiffApplies(number, diff)
                         THEN Shuffles(Slice(sorted, Num(number.val * DiffFactor)))
                         ELSE {sorted}
            IN {[ok |-> TRUE,
                 stored |-> IF filtering THEN ws ELSE sorted,
                 result |-> Slice(w, number)] : w \in again} :
            sorted \in Shuffles(cand)}

(***************************************************************************)
(* Responses.                                                              *)
(***************************************************************************)
RateLimitMessage == "You hit the rate limit, try again in a few seconds"
UnknownLanguageMessage == "No translation for this language"
NoWordsMessage == "No words found with the specified length"

\* errorResponse(message, status)
ErrorResponse(r, message, status) ==
  [r EXCEPT !.status = status, !.error = message, !.kind = "error"]
\* jsonResponse(value)
JsonResponse(r, v) ==
  [r EXCEPT !.status = 200, !.kind = v.kind, !.body = v.words]

\* the part of a response record that tells what the handler read: the route,
\* the rate-limit check (client h at clock t on table rl) and the parameters
Request(route, wasLoading, ld, h, t, lp, np, lenp, dp) ==
  [NoResponse EXCEPT
     !.route = route, !.loaded = wasLoading,
     !.checked = TRUE, !.client = ClientOf(h), !.at = t,
     !.prev = lastAdmit[ClientOf(h)],
     !.admitted = RateAdmits(rateLimits, ClientOf(h), t),
     !.lang = ParseLang(lp), !.own = ParseLang(lp) \in DOMAIN ld,
     !.seen = Get(ld, ParseLang(lp)),
     !.number = ParseNumber(np), !.length = ParseLength(lenp), !.diff = ParseDiff(dp),
     !.asked = [number |-> np, length |-> lenp, diff |-> dp]]

\* checkRateLimit(ip) at clock value t: the table, and the history of admissions
CheckRateLimit(h, t) ==
  /\ now' = t
  /\ rateLimits' = RateAfter(rateLimits, ClientOf(h), t)
  /\ lastAdmit' = IF RateAdmits(rateLimits, ClientOf(h), t)
                  THEN [lastAdmit EXCEPT ![ClientOf(h)] = t]
                  ELSE lastAdmit

\* router.get('/languages') after the load: the store is ld, its keys are ord
\* and the available languages are avail
RespondLanguages(wasLoading, ld, ord, avail) ==
  /\ last' = [NoResponse EXCEPT !.route = "/languages", !.loaded = wasLoading,
                !.status = 200, !.kind = "array", !.body = avail]
  /\ languageData' = ld
  /\ languageOrder' = ord
  /\ availableLanguages' = avail
  /\ served' = served + 1
  /\ UNCHANGED <<rateLimits, now, lastAdmit>>

\* a variant of RespondAll that looks the language up before it consults the
\* rate limiter
RespondAllLookupFirst(E, wasLoading, ld, ord, avail) ==
  \E h \in E.ips, d \in E.delays, lp \in E.langs :
    LET req == Request("/all", wasLoading, ld, h, now + d, lp, Missing, Missing, Missing)
        unknown == [req EXCEPT !.checked = FALSE, !.admitted = FALSE]
    IN /\ IF ~Truthy(req.seen)
          THEN /\ last' = ErrorResponse(unknown, UnknownLanguageMessage, 403)
               /\ UNCHANGED <<rateLimits, now, lastAdmit>>
          ELSE /\ CheckRateLimit(h, now + d)
               /\ last' = IF ~req.admitted THEN ErrorResponse(req, RateLimitMessage, 403)
                          ELSE JsonResponse(req, req.seen)
       /\ languageData' = ld
       /\ languageOrder' = ord
       /\ availableLanguages' = avail
       /\ served' = served + 1

\* router.get('/all') after the load
RespondAll(E, wasLoading, ld, ord, avail) ==
  \E h \in E.ips, d \in E.delays, lp \in E.langs :
    LET req == Request("/all", wasLoading, ld, h, now + d, lp, Missing, Missing, Missing)
    IN /\ CheckRateLimit(h, now + d)
       /\ last' = IF ~req.admitted THEN ErrorResponse(req, RateLimitMessage, 403)
                  ELSE IF ~Truthy(req.seen) THEN ErrorResponse(req, UnknownLanguageMessage, 403)
                  ELSE JsonResponse(req, req.seen)
       /\ languageData' = ld
       /\ languageOrder' = ord
       /\ availableLanguages' = avail
       /\ served' = served + 1

\* router.get('/word') after the load.  A stored value that is truthy but no
\* array has no filter and no sort: the handler throws.
RespondWord(E, wasLoading, ld, ord, avail) ==
  \E h \in E.ips, d \in E.delays, lp \in E.langs,
     np \in E.numbers, lenp \in E.lengths, dp \in E.diffs :
    LET req == Request("/word", wasLoading, ld, h, now + d, lp, np, lenp, dp)
    IN /\ CheckRateLimit(h, now + d)
       /\ languageOrder' = ord
       /\ availableLanguages' = avail
       /\ served' = served + 1
       /\ IF ~req.admitted
          THEN /\ last' = ErrorResponse(req, RateLimitMessage, 403)
               /\ languageData' = ld
          ELSE IF ~Truthy(req.seen)
          THEN /\ last' = ErrorResponse(req, UnknownLanguageMessage, 403)
               /\ languageData' = ld
          ELSE IF req.seen.kind # "array"
          THEN /\ last' = ErrorResponse(req, "TypeError", 500)
               /\ languageData' = ld
          ELSE \E out \in WordOutcomes(req.seen.words, req.number, req.length, req.diff) :
                 /\ last' = IF out.ok THEN JsonResponse(req, ArrayOf(out.result))
                            ELSE ErrorResponse(req, NoWordsMessage, 403)
                 /\ languageData' = [ld EXCEPT ![req.lang] = ArrayOf(out.stored)]

\* the rest of a data route's handler once the data is loaded
Respond(E, route, wasLoading, ld, ord, avail) ==
  CASE route = "/languages" -> RespondLanguages(wasLoading, ld, ord, avail)
    [] route = "/all" -> RespondAll(E, wasLoading, ld, ord, avail)
    [] route = "/word" -> RespondWord(E, wasLoading, ld, ord, avail)

(***************************************************************************)
(* The routes that touch no state.                                         *)
(***************************************************************************)
Static(route, status, kind, message) ==
  /\ MayArrive
  /\ last' = [NoResponse EXCEPT !.route = route, !.status = status, !.kind = kind,
                !.error = message]
  /\ served' = served + 1
  /\ UNCHANGED <<languageData, languageOrder, availableLanguages, dataLoaded,
                 rateLimits, now, loads, loadsStarted, lastAdmit, watched>>

\* router.get('/')
Root == Static("/", 302, "redirect", "")
\* router.get('/home')
Home == Static("/home", 200, "html", "")
\* router.all('*')
NotFound == Static("*", 404, "error", "Not found")

(***************************************************************************)
(* The data routes.  if (!dataLoaded) { await loadWordData(); ... } : with *)
(* the flag set the handler runs to its response in one step; otherwise it *)
(* calls loadWordData, which runs up to its first await.                   *)
(***************************************************************************)
FreeSlot == CHOOSE s \in Slots : loads[s].pc = "idle" /\ \A u \in Slots : u < s => loads[u].pc # "idle"

\* a variant of Serve that does not look at the flag
ServeUnguarded(E, route) ==
  /\ MayArrive
  /\ Respond(E, route, FALSE, languageData, languageOrder, availableLanguages)
  /\ UNCHANGED <<dataLoaded, loads, loadsStarted, watched>>

Serve(E, route) ==
  /\ dataLoaded
  /\ MayArrive
  /\ Respond(E, route, FALSE, languageData, languageOrder, availableLanguages)
  /\ UNCHANGED <<dataLoaded, loads, loadsStarted, watched>>

StartLoad(E, route) ==
  /\ ~dataLoaded
  /\ MayArrive
  /\ Cardinality(InFlight) < E.loads
  /\ loads' = [loads EXCEPT ![FreeSlot] = [pc |-> "fetch", route |-> route, idx |-> 0]]
  /\ loadsStarted' = loadsStarted + 1
  /\ \E follow \in BOOLEAN :
       watched' = IF follow /\ watched.state = "none"
                  THEN [state |-> "running", slot |-> FreeSlot, pre |-> languageData,
                        preAvail |-> availableLanguages, outcomes |-> <<>>,
                        count |-> 0]
                  ELSE watched
  /\ UNCHANGED <<languageData, languageOrder, availableLanguages, dataLoaded,
                 rateLimits, now, last, served, lastAdmit>>

\* router.get('/languages'), router.get('/all'), router.get('/word')
Arrive(E) == \E route \in E.routes : Serve(E, route) \/ StartLoad(E, route)

(***************************************************************************)
(* loadWordData.  One step is the end of the two awaits on one code (fetch *)
(* and json: nothing shared is read or written between them) followed by   *)
(* the code up to the next await, or to the handler's response.            *)
(***************************************************************************)
\* a variant of Store that drops the other keys
StoreAlone(ld, lang, v) == [k \in {lang} |-> v]

\* languageData[lang] = words
Store(ld, lang, v) ==
  [k \in DOMAIN ld \cup {lang} |-> IF k = lang THEN v ELSE ld[k]]
\* the own keys after the assignment: a new key comes last
StoreOrder(ord, ld, lang) ==
  IF lang \in DOMAIN ld THEN ord ELSE Append(ord, lang)

\* a variant of AfterFetch that stores an empty list for a code that failed
AfterFetchBlank(ld, lang, o) ==
  Store(ld, lang, IF Throws(o) THEN ArrayOf(<<>>) ELSE Parsed(lang, o))

\* the store after the awaits on lang ended with outcome o
AfterFetch(ld, lang, o) == IF Throws(o) THEN ld ELSE Store(ld, lang, Parsed(lang, o))
AfterFetchOrder(ord, ld, lang, o) == IF Throws(o) THEN ord ELSE StoreOrder(ord, ld, lang)

\* a variant of Returns with one catch around the whole load
ReturnsOnAnyFailure(i, o) == Throws(o) \/ i = NumLanguages

\* the load returns after this code: the outer catch took a failure of 'en',
\* or the loop is through
Returns(i, o) == (i = 0 /\ Throws(o)) \/ i = NumLanguages
\* the available languages when the load returns: Object.keys(languageData)
\* unless the outer catch skipped the assignment
AfterLoadAvailable(avail, ord, i, o) == IF i = 0 /\ Throws(o) THEN avail ELSE ord

\* the followed call after a step of the load of slot s that ended with o
Followed(s, o, returned) ==
  IF watched.state = "running" /\ watched.slot = s
  THEN [watched EXCEPT !.outcomes = Append(@, o),
                       !.state = IF returned THEN "returned" ELSE "running",
                       !.count = IF returned THEN loadsStarted ELSE 0]
  ELSE watched

\* the awaits on a code end and the load goes on to the next code
LoadNext(E, s) ==
  /\ loads[s].pc = "fetch"
  /\ \E o \in E.outcomes :
       LET i == loads[s].idx
           lang == CodeAt(i)
       IN /\ ~Returns(i, o)
          /\ languageData' = AfterFetch(languageData, lang, o)
          /\ languageOrder' = AfterFetchOrder(languageOrder, languageData, lang, o)
          /\ loads' = [loads EXCEPT ![s].idx = i + 1]
          /\ watched' = Followed(s, o, FALSE)
  /\ UNCHANGED <<availableLanguages, dataLoaded, rateLimits, now, last, served,
                 loadsStarted, lastAdmit>>

\* the awaits on a code end, the load returns, the handler sets the flag and
\* runs to its response
LoadReturn(E, s) ==
  /\ loads[s].pc = "fetch"
  /\ \E o \in E.outcomes :
       LET i == loads[s].idx
           lang == CodeAt(i)
           ord == AfterFetchOrder(languageOrder, languageData, lang, o)
       IN /\ Returns(i, o)
          /\ watched' = Followed(s, o, TRUE)
          /\ dataLoaded' = TRUE
          /\ loads' = [loads EXCEPT ![s] = IdleLoad]
          /\ Respond(E, loads[s].route, TRUE, AfterFetch(languageData, lang, o), ord,
                     AfterLoadAvailable(availableLanguages, ord, i, o))
  /\ UNCHANGED loadsStarted

\* the data routes
Next(E) ==
  \/ Arrive(E)
  \/ \E s \in Slots : LoadNext(E, s)
  \/ \E s \in Slots : LoadReturn(E, s)

\* every route
NextAll(E) ==
  \/ Next(E)
  \/ Root
  \/ Home
  \/ NotFound

\* the service under each environment
Spec == Init /\ [][Next(LoadEnv)]_vars
SpecRate == Init /\ [][NextAll(RateEnv)]_vars
SpecLang == Init /\ [][Next(LangEnv)]_vars
SpecWord == Init /\ [][Next(WordEnv)]_vars
SpecFallback == Init /\ [][Next(FallbackEnv)]_vars
SpecAvail == Init /\ [][Next(AvailEnv)]_vars
SpecFirst == Init /\ [][Next(FirstEnv)]_vars
SpecSlot == Init /\ [][NextAll(SlotEnv)]_vars

(***************************************************************************)
(* The rate limiter (under SpecRate).  last.prev is the time of the        *)
(* client's latest admitted check before the one last describes, 0 if      *)
(* there was none; it is kept apart from rateLimits and never purged.      *)
(***************************************************************************)
RateLimited(r) == r.status = 403 /\ r.error = RateLimitMessage

\* C1: a check of a client less than one window after that client's latest
\* admitted check is rejected and answered 403, whatever checks of other
\* clients, with their cleanup passes, came in between
C1_WithinWindowRejected ==
  (last.checked /\ last.prev # 0 /\ last.at - last.prev < RATE_LIMIT_WINDOW)
    => (~last.admitted /\ RateLimited(last))

\* a client is rejected inside its window after another client was admitted,
\* and ran the cleanup pass, in between
C1_Witness ==
  /\ last.checked /\ last.prev # 0 /\ last.at - last.prev < RATE_LIMIT_WINDOW
  /\ ~last.admitted
  /\ \E c \in Clients : c # last.client /\ lastAdmit[c] > last.prev

\* C2 as stated: a check one window or more after the client's latest admitted
\* check, exactly one window included, is admitted and recorded
C2_AdmittedFromWindow ==
  (last.checked /\ last.prev # 0 /\ last.at - last.prev >= RATE_LIMIT_WINDOW)
    => (last.admitted /\ last.client \in DOMAIN rateLimits
        /\ rateLimits[last.client] = last.at)

\* C2 amended: a check more than one window after the client's latest admitted
\* check is admitted and recorded; a check exactly one window after it is
\* rejected
C2_AdmittedAfterWindow ==
  /\ (last.checked /\ last.prev # 0 /\ last.at - last.prev > RATE_LIMIT_WINDOW)
       => (last.admitted /\ last.client \in DOMAIN rateLimits
           /\ rateLimits[last.client] = last.at)
  /\ (last.checked /\ last.prev # 0 /\ last.at - last.prev = RATE_LIMIT_WINDOW)
       => ~last.admitted

\* a client is admitted again one millisecond after its window
C2_Witness ==
  /\ last.checked /\ last.prev # 0
  /\ last.at - last.prev = RATE_LIMIT_WINDOW + 1
  /\ last.admitted

\* C3: right after an admitted check the table holds no entry more than one
\* window older than the check, and holds the caller's entry with the check's
\* time
C3_PurgedAfterAdmit ==
  (last.checked /\ last.admitted)
    => /\ \A k \in DOMAIN rateLimits : ~(last.at - rateLimits[k] > RATE_LIMIT_WINDOW)
       /\ last.client \in DOMAIN rateLimits
       /\ rateLimits[last.client] = last.at

\* an admitted check has purged the stale entry of another client
C3_Witness ==
  /\ last.checked /\ last.admitted
  /\ \E c \in Clients : c # last.client /\ lastAdmit[c] # 0 /\ c \notin DOMAIN rateLimits

(***************************************************************************)
(* The loader (under Spec).  watched follows one call of loadWordData,     *)
(* any one, from its start to its return.                                  *)
(***************************************************************************)
\* the followed load takes a step
WatchedStep == watched.state = "running" /\ watched'.outcomes # watched.outcomes
\* the followed load returns
WatchedReturn == watched.state = "running" /\ watched'.state = "returned"
\* the code that step was about, and how its awaits ended
StepIndex == Len(watched.outcomes)
StepCode == CodeAt(StepIndex)
StepOutcome == watched'.outcomes[StepIndex + 1]

\* C4: loadWordData is called at most once in the life of the process
C4_LoadedOnce == loadsStarted <= 1

\* C5: when a load whose 'en' fetch succeeded returns, the store holds what was
\* fetched for 'en' and for every secondary code whose fetch succeeded, and the
\* entry, or its absence, of every code whose fetch failed is as it was when the
\* load was called
C5_FailedCodesAsBefore ==
  [][(WatchedReturn /\ ~Throws(watched'.outcomes[1]))
       => \A i \in 0..NumLanguages :
            Get(languageData', CodeAt(i)) =
              IF Throws(watched'.outcomes[i + 1])
              THEN Get(watched.pre, CodeAt(i))
              ELSE Parsed(CodeAt(i), watched'.outcomes[i + 1])]_vars

\* C6 as stated: no failed fetch, that of 'en' included, ends a load early: a
\* load returns only after its last code, and every fetch that succeeds is
\* written to the store
C6_NoFailureAborts ==
  [][WatchedStep
       => /\ ~Throws(StepOutcome) => Get(languageData', StepCode) = Parsed(StepCode, StepOutcome)
          /\ watched'.state = "returned" => StepIndex = NumLanguages]_vars

\* C6 amended: a failed fetch of a secondary code does not end the load: the
\* load returns only after its last code or on a failed fetch of 'en', every
\* fetch that succeeds is written to the store, and a failed fetch of 'en' ends
\* the load at once with the store and the available languages unchanged
C6_SecondaryFailureSkipped ==
  [][WatchedStep
       => /\ ~Throws(StepOutcome) => Get(languageData', StepCode) = Parsed(StepCode, StepOutcome)
          /\ watched'.state = "returned"
               <=> (StepIndex = NumLanguages \/ (StepIndex = 0 /\ Throws(StepOutcome)))
          /\ (StepIndex = 0 /\ Throws(StepOutcome))
               => (languageData' = languageData
                   /\ availableLanguages' = availableLanguages)]_vars

\* a load has returned in which a secondary code failed and a later code was
\* fetched and is in the store
C6_Witness ==
  /\ watched.state = "returned"
  /\ Len(watched.outcomes) = NumLanguages + 1
  /\ \E i \in 1..NumLanguages - 1 :
       /\ Throws(watched.outcomes[i + 1])
       /\ \E j \in i + 1..NumLanguages :
            /\ watched.outcomes[j + 1] = "array"
            /\ Get(languageData, CodeAt(j)) = ArrayOf(RemoteWords(CodeAt(j)))

\* C7: when the only load has returned on a failed fetch of 'en', the store
\* and the available languages are what they were before it, the built-in
\* list, the flag is set, no load is started again, and the request that
\* started the load was answered with the built-in data
C7_PrimaryFailureKeepsFallback ==
  (watched.state = "returned" /\ watched.count = 1 /\ Throws(watched.outcomes[1]))
    => /\ languageData = watched.pre
       /\ languageData = [k \in {"en"} |-> ArrayOf(FallbackWords)]
       /\ availableLanguages = watched.preAvail
       /\ availableLanguages = <<"en">>
       /\ dataLoaded
       /\ loadsStarted = 1
       /\ InFlight = {}
       /\ served = 1 => (last.loaded /\ last.status = 200 /\ last.body = FallbackWords)
       /\ served > 1 => ~last.loaded

\* the only load failed on 'en' and a later request was answered without a load
C7_Witness ==
  /\ watched.state = "returned" /\ watched.count = 1 /\ Throws(watched.outcomes[1])
  /\ served > 1
  /\ ~last.loaded

\* C8: a fetch that ends in a network error or delivers anything but a JSON
\* array of strings leaves the store entry of its code as it was
C8_MalformedSkipped ==
  [][(WatchedStep /\ StepOutcome # "array")
       => Get(languageData', StepCode) = Get(languageData, StepCode)]_vars

(***************************************************************************)
(* The word store as the handlers use it (under SpecLang).                 *)
(***************************************************************************)
\* C9: a /word request leaves the word store as it was: every list with its
\* elements in the same order
C9_WordLeavesStore ==
  [][(dataLoaded /\ served' = served + 1 /\ last'.route = "/word")
       => languageData' = languageData]_vars

UnknownLanguage(r) == r.status = 403 /\ r.error = UnknownLanguageMessage

\* C10: a request to /all or /word whose lang is no key of the word store is
\* answered 403 with the unknown-language error, whatever the other parameters
\* (read for the requests the rate limiter admits: both handlers consult it
\* before they look at lang, and a rejected request gets the rate-limit error)
C10_UnknownLanguageRefused ==
  (last.route \in {"/all", "/word"} /\ ~last.own /\ last.admitted)
    => UnknownLanguage(last)

(***************************************************************************)
(* The word selector (under SpecWord).  last.asked holds the query         *)
(* parameters as the client wrote them, last.seen the stored value the     *)
(* handler found for the language.                                         *)
(***************************************************************************)
\* the integer a parameter's text denotes
IntegerOf(cs) ==
  CASE cs = <<"0">> -> 0
    [] cs = <<"2">> -> 2
    [] cs = <<"3">> -> 3
    [] cs = <<"4">> -> 4
    [] cs = <<"5">> -> 5
    [] cs = <<"9">> -> 9
    [] cs = <<"1", "0", "1">> -> 101
    [] cs = <<"-", "2">> -> 0 - 2
    [] cs = <<"-", "3">> -> 0 - 3

\* an admitted /word request for a language whose stored value is a list
AdmittedWord(r) == r.route = "/word" /\ r.admitted /\ r.seen.kind = "array"
\* r's list holds no word of n characters
NoWordOfLength(r, n) == \A i \in 1..Len(r.seen.words) : WordLen(r.seen.words[i]) # n
NoWords(r) == r.status = 403 /\ r.error = NoWordsMessage

\* C11 as stated: an admitted /word request with a known language and an
\* integer length, zero and negative values included, of which the language's
\* list holds no word is answered 403 with the no-words-of-length error
C11_NoWordsForAnyLength ==
  (AdmittedWord(last) /\ last.asked.length.present
     /\ NoWordOfLength(last, IntegerOf(last.asked.length.text)))
    => NoWords(last)

\* C11 amended: for a length of 1 or more of which the list holds no word the
\* answer is 403 with the no-words-of-length error, which is not the
\* unknown-language error; a length of 0 or less is no filter and the answer
\* is 200
C11_NoWordsForPositiveLength ==
  (AdmittedWord(last) /\ last.asked.length.present)
    => LET n == IntegerOf(last.asked.length.text)
       IN /\ (n >= 1 /\ NoWordOfLength(last, n))
               => (NoWords(last) /\ ~UnknownLanguage(last))
          /\ n <= 0 => last.status = 200

\* a request for words of 9 characters, of which the loaded list has none,
\* was refused
C11_Witness ==
  /\ AdmittedWord(last) /\ last.asked.length = Text(<<"9">>)
  /\ last.seen = ArrayOf(RemoteWords("en"))
  /\ NoWords(last)

\* the count asked for: the number parameter's integer, 1 when it is missing
NumberAsked(r) ==
  IF r.asked.number.present THEN IntegerOf(r.asked.number.text) ELSE 1
\* n brought into 1..100
Clamped(n) == IF n < 1 THEN 1 ELSE IF n > 100 THEN 100 ELSE n

\* C12: the count /word uses is the number parameter's integer brought into
\* 1..100, 1 when the parameter is missing, and a 200 response never holds more
\* words than that count
C12_CountClamped ==
  (last.route = "/word" /\ last.admitted)
    => /\ last.number = Num(Clamped(NumberAsked(last)))
       /\ last.status = 200 => Len(last.body) <= Clamped(NumberAsked(last))

\* on a list of three words number=-2 was answered with one word, or
\* number=101 with all three
C12_Witness ==
  /\ AdmittedWord(last) /\ last.status = 200 /\ Len(last.seen.words) = 3
  /\ \/ last.asked.number = Text(<<"-", "2">>) /\ Len(last.body) = 1
     \/ last.asked.number = Text(<<"1", "0", "1">>) /\ Len(last.body) = 3

\* how many positions of ws hold w, and how many hold a word of n characters
Occurrences(ws, w) == Cardinality({i \in 1..Len(ws) : ws[i] = w})
PositionsOfLength(ws, n) == Cardinality({i \in 1..Len(ws) : WordLen(ws[i]) = n})
Smaller(a, b) == IF a < b THEN a ELSE b

\* C13: with a length L of 1 or more, a 200 response of /word holds exactly
\* min(N, k) words, N the count used and k the number of positions of the
\* language's list with a word of L characters; every word has L characters
\* and none is returned more often than the list holds it, with or without a
\* difficulty and whatever the two sorts do
C13_ExactlyMinWords ==
  (AdmittedWord(last) /\ last.status = 200 /\ last.asked.length.present
     /\ IntegerOf(last.asked.length.text) >= 1)
    => LET L == IntegerOf(last.asked.length.text)
           ws == last.seen.words
       IN /\ Len(last.body) = Smaller(Clamped(NumberAsked(last)), PositionsOfLength(ws, L))
          /\ \A i \in 1..Len(last.body) :
               /\ WordLen(last.body[i]) = L
               /\ Occurrences(last.body, last.body[i]) <= Occurrences(ws, last.body[i])

\* number=2, length=4 and diff=3 on a list with "kiwi" at two positions gave
\* both, and number missing gave one
C13_Witness ==
  /\ AdmittedWord(last) /\ last.status = 200
  /\ last.asked.length = Text(<<"4">>) /\ last.asked.diff = Text(<<"3">>)
  /\ PositionsOfLength(last.seen.words, 4) = 2
  /\ \/ last.asked.number = Text(<<"2">>) /\ last.body = <<"kiwi", "kiwi">>
     \/ last.asked.number = Missing /\ last.body = <<"kiwi">>

(***************************************************************************)
(* The built-in data (under SpecFallback).                                 *)
(***************************************************************************)
\* an admitted /word?number=3&length=5 for 'en' that found the built-in list
FallbackRequest(r) ==
  /\ AdmittedWord(r) /\ r.lang = "en" /\ r.seen = ArrayOf(FallbackWords)
  /\ r.asked.number = Text(<<"3">>) /\ r.asked.length = Text(<<"5">>)
OfLength(ws, n) == \A i \in 1..Len(ws) : WordLen(ws[i]) = n

\* C14 as stated: on the built-in data /word?number=3&length=5&lang=en returns
\* at most 3 words of 5 letters each, and at most 1 word
C14_AtMostOneWord ==
  FallbackRequest(last)
    => /\ last.status = 200
       /\ Len(last.body) <= 3 /\ OfLength(last.body, 5)
       /\ Len(last.body) <= 1

\* C14 amended: it returns at most 3 words of 5 letters each, namely the two
\* words "hello" and "world" in either order
C14_HelloAndWorld ==
  FallbackRequest(last)
    => /\ last.status = 200
       /\ Len(last.body) <= 3 /\ OfLength(last.body, 5)
       /\ last.body \in {<<"hello", "world">>, <<"world", "hello">>}

\* after a failed load the request was answered with "world" before "hello"
C14_Witness ==
  /\ FallbackRequest(last) /\ dataLoaded
  /\ availableLanguages = <<"en">>
  /\ last.body = <<"world", "hello">>

(***************************************************************************)
(* The available languages (under SpecAvail).                              *)
(***************************************************************************)
Elements(seq) == {seq[i] : i \in 1..Len(seq)}

\* C15: in every state the word store has a key "en" and the available
\* languages hold "en", so every /languages response holds "en"
C15_AlwaysEnglish ==
  /\ "en" \in DOMAIN languageData
  /\ "en" \in Elements(availableLanguages)
  /\ last.route = "/languages" => (last.status = 200 /\ "en" \in Elements(last.body))

\* /languages answered with "en" and more after two loads had been started,
\* or with "en" alone after a load had written a secondary code
C15_Witness ==
  /\ last.route = "/languages" /\ "en" \in Elements(last.body)
  /\ loadsStarted = 2
  /\ \/ Len(last.body) >= 2
     \/ Len(last.body) = 1 /\ DOMAIN languageData # {"en"}

\* the codes a load can write
Codes == {"en"} \cup Elements(languages)
\* /all and /word answer a request for code l with words
CanServe(l) ==
  LET v == Get(languageData, l) IN Truthy(v) /\ v.kind = "array"

\* C16: when no load is in progress, redundant and interleaved loads
\* included, the available languages are the keys of the word store, and
\* /languages lists exactly the languages /all and /word can serve
C16_ListedIsServable ==
  InFlight = {}
    => /\ Elements(availableLanguages) = DOMAIN languageData
       /\ \A l \in Codes : l \in Elements(availableLanguages) <=> CanServe(l)

(***************************************************************************)
(* The rate limiter and the order of a handler's steps (under SpecRate,    *)
(* SpecFirst and SpecSlot).                                                *)
(***************************************************************************)
\* this step produced a response whose handler called checkRateLimit
CheckedStep == served' = served + 1 /\ last'.checked

\* C17: a check that is rejected leaves the whole rate-limit table as it was:
\* the client's own timestamp is not refreshed and no entry of another client
\* is purged
C17_RejectedLeavesTable ==
  [][(CheckedStep /\ ~last'.admitted) => rateLimits' = rateLimits]_vars

\* a client was rejected inside its window while the table held another
\* client's entry older than the window, which is still there
C17_Witness ==
  /\ last.checked /\ ~last.admitted
  /\ last.client \in DOMAIN rateLimits /\ rateLimits[last.client] = last.prev
  /\ \E k \in DOMAIN rateLimits :
       k # last.client /\ last.at - rateLimits[k] > RATE_LIMIT_WINDOW

\* how many calls of loadWordData have returned
LoadsCompleted == loadsStarted - Cardinality(InFlight)
\* this step produced the response of a data route
DataResponseStep == served' = served + 1 /\ last'.route \in DataRoutes
\* this step ended the load of a request to the route of the response
OwnLoadReturned ==
  \E s \in InFlight : loads'[s].pc = "idle" /\ loads[s].route = last'.route

\* C18: no data route responds before a load has returned; a request that finds
\* the flag unset responds in the step in which its own load returns, and
\* reads neither the store nor the rate-limit table for its response before;
\* the flag is set only when a load has returned
C18_LoadBeforeResponse ==
  [][/\ DataResponseStep
         => /\ LoadsCompleted' >= 1
            /\ ~dataLoaded => (last'.loaded /\ OwnLoadReturned)
            /\ last'.loaded <=> OwnLoadReturned
     /\ (~DataResponseStep /\ InFlight' # {})
         => (rateLimits' = rateLimits /\ last' = last)
     /\ dataLoaded' => LoadsCompleted' >= 1]_vars

\* two requests arrived before the flag was set; each was answered when its
\* own load returned
C18_Witness ==
  /\ last.route \in DataRoutes /\ last.loaded
  /\ served = 2 /\ loadsStarted = 2 /\ LoadsCompleted = 2

\* r was refused for its parameters
ParameterError(r) == UnknownLanguage(r) \/ NoWords(r)
\* the state holds the response to an admitted /all or /word request that was
\* refused for its parameters
RefusedAfterAdmit ==
  last.route \in {"/all", "/word"} /\ last.admitted /\ ParameterError(last)

\* C19: a request to /all or /word that is refused for its language or its
\* length has passed the rate limiter and left its timestamp in the table; the
\* same client's next /all or /word request inside the window is rejected as
\* rate-limited; the other routes neither call the rate limiter nor change
\* the table
C19_SlotConsumedFirst ==
  [][/\ (DataResponseStep /\ last'.route # "/languages" /\ ParameterError(last'))
         => /\ last'.checked /\ last'.admitted
            /\ last'.client \in DOMAIN rateLimits'
            /\ rateLimits'[last'.client] = last'.at
     /\ (RefusedAfterAdmit /\ CheckedStep /\ last'.client = last.client
          /\ last'.at - last.at < RATE_LIMIT_WINDOW)
         => (RateLimited(last') /\ rateLimits' = rateLimits)
     /\ (served' = served + 1 /\ last'.route \notin {"/all", "/word"})
         => (~last'.checked /\ rateLimits' = rateLimits)]_vars

\* a client the table knew was admitted again, asked /word for a length no
\* word has, was refused, and its new timestamp is in the table
C19_Witness ==
  /\ RefusedAfterAdmit /\ last.route = "/word" /\ NoWords(last)
  /\ last.prev # 0
  /\ rateLimits[last.client] = last.at

====
